---- MODULE Spec2Model ----
(***************************************************************************)
(* Model of static/js/base.js of Mushguard: the camera controls, the       *)
(* camera-form submission and the splicing of the server's HTML fragment   *)
(* into the page, with the re-execution of the fragment's scripts.         *)
(*                                                                         *)
(* One action per event-loop task: a user event handler, or the            *)
(* continuation that runs when a promise (getUserMedia, toBlob, fetch,     *)
(* response.text, a script element's load) settles.  A continuation runs   *)
(* to its next await, as the JavaScript run-to-completion rule has it.     *)
(***************************************************************************)
EXTENDS Integers, Sequences, FiniteSets, TLC

\* ---- bounds of the exploration ----
MaxClicks  == 4   \* user gestures on #start-camera, #capture-photo and #camera-form
MaxScripts == 2   \* <script> elements in one .analysis-result
MaxFiles   == 3   \* drop and change events on the drop zone

\* ---- values ----
null     == 0                      \* let stream = null; cameraImageInput.value = ''
Inline   == "inline"               \* a <script> without src
URLs     == {"leaflet.js"}         \* the src of the external scripts the server refers to
Decls    == {Inline} \cup URLs     \* a <script>: Inline, or its src
NoResult == <<"no-result">>               \* a body in which doc.querySelector('.analysis-result') is null
NoFile   == << >>                  \* files[0] of an empty FileList
Files    == {<<"image", "png">>, <<"text", "plain">>}   \* File.type, as major/minor
NoBody   == <<"no-body">>               \* no response body received (yet)

RECURSIVE SeqsUpTo(_)
SeqsUpTo(n) ==
    IF n = 0 THEN {<< >>}
    ELSE LET S == SeqsUpTo(n - 1)
         IN  S \cup {Append(s, d) : s \in {t \in S : Len(t) = n - 1}, d \in Decls}

\* the script lists the server's .analysis-result template may have
ScriptLists == SeqsUpTo(MaxScripts)

VARIABLES
    pageOpen,          \* FALSE once beforeunload has run
    uploadBtnActive,   \* uploadModeBtn.classList has 'active'
    cameraBtnActive,   \* cameraModeBtn.classList has 'active'
    uploadShown,       \* uploadMode.style.display = 'block'
    cameraShown,       \* cameraMode.style.display = 'block'
    startInUpload,     \* history: start clicked since the upload panel was last shown
    stream,            \* let stream: null or the MediaStream held
    live,              \* MediaStreams whose tracks have not been stopped
    granted,           \* number of MediaStreams getUserMedia has resolved with
    clicks,            \* number of clicks on #start-camera, #capture-photo, submits
    pendingStart,      \* getUserMedia promises not yet settled
    startDisabled,     \* startButton.disabled
    captureDisabled,   \* captureButton.disabled
    pendingBlob,       \* canvas.toBlob callbacks not yet run
    frames,            \* number of blob URLs created
    cameraImageInput,  \* cameraImageInput.value: null ('') or a blob URL
    previewShown,      \* cameraPreviewContainer.style.display = 'block'
    subs,              \* the submissions that passed the frame check: the stage reached,
                       \* the blob URL read, the 2xx body, the POSTs issued
    alerts,            \* alert() calls, by message
    hasAnchor,         \* the page has an .input-container
    template,          \* the <script> elements of the .analysis-result the server renders
    docResult,         \* the page's .analysis-result: null or the submission it came from
    leafletLinks,      \* <link rel=stylesheet> with 'leaflet' in href, in the page
    bodyScripts,       \* <script> elements appended to document.body
    fetches,           \* per URL, script elements with that src appended (loads started)
    patches,           \* the executeScriptsFrom calls
    hasLoading,        \* loadingIndex: the page has a #loading element
    hasResultCard,     \* resultCard: the page has a #resultCard element
    hasResultContent,  \* resultContent: the page has a #resultContent element
    loadingDisplay,    \* loadingIndex.style.display
    resultCardDisplay, \* resultCard.style.display
    resultContent,     \* resultContent.innerHTML, as the list of its blocks
    files,             \* number of drop and change events on the drop zone
    reqs               \* the fetch('/analyze/') calls: the stage reached, the file sent,
                       \* whether another call was outstanding when it was issued

vars == <<pageOpen, clicks, uploadBtnActive, cameraBtnActive, uploadShown,
          cameraShown, startInUpload, stream, live, granted, pendingStart,
          startDisabled, captureDisabled, pendingBlob, frames,
          cameraImageInput, previewShown, subs, alerts, hasAnchor, template,
          docResult, leafletLinks, bodyScripts, fetches, patches,
          hasLoading, hasResultCard, hasResultContent, loadingDisplay,
          resultCardDisplay, resultContent, files, reqs>>

modeVars   == <<uploadBtnActive, cameraBtnActive, uploadShown, cameraShown>>
cameraVars == <<stream, live, granted, pendingStart, startDisabled,
                captureDisabled, startInUpload>>
frameVars  == <<pendingBlob, frames, cameraImageInput, previewShown>>
docVars    == <<hasAnchor, template, docResult, leafletLinks, bodyScripts, fetches, patches>>
analyzeVars == <<hasLoading, hasResultCard, hasResultContent, loadingDisplay,
                 resultCardDisplay, resultContent, files, reqs>>
pipelineVars == <<clicks, subs, alerts>>

\* The state when the DOMContentLoaded handler has run.  The markup is not part of
\* the script: the page is taken to start as the script's own resets leave it
\* (upload panel shown, start enabled, capture disabled, no frame, no result), with
\* or without an .input-container.  The server renders its result from one
\* template, so every body with a result carries the same list of scripts; on a
\* page without an .input-container no result is ever spliced in and the list
\* is immaterial.  captureOff: the markup has #capture-photo disabled.
PageLoaded(captureOff) ==
    /\ pageOpen = TRUE
    /\ uploadBtnActive = TRUE /\ cameraBtnActive = FALSE
    /\ uploadShown = TRUE /\ cameraShown = FALSE
    /\ startInUpload = FALSE
    /\ stream = null
    /\ live = {}
    /\ granted = 0
    /\ clicks = 0
    /\ pendingStart = 0
    /\ startDisabled = FALSE
    /\ captureDisabled = captureOff
    /\ pendingBlob = 0
    /\ frames = 0
    /\ cameraImageInput = null
    /\ previewShown = FALSE
    /\ subs = << >>
    /\ alerts = [camera |-> 0, noCapture |-> 0, network |-> 0]
    /\ hasAnchor \in BOOLEAN
    /\ template \in (IF hasAnchor THEN ScriptLists ELSE {<< >>})
    /\ docResult = null
    /\ leafletLinks = 0
    /\ bodyScripts = 0
    /\ fetches = [u \in URLs |-> 0]
    /\ patches = << >>

\* The index page's elements when the handler has run: #loading, #resultCard and
\* #resultContent are looked up once and may be absent; the loading indicator and
\* the result card are taken to start hidden, as handleFile's 'Show loading'
\* expects them.
IndexLoaded(l, c, r) ==
    /\ hasLoading = l
    /\ hasResultCard = c
    /\ hasResultContent = r
    /\ loadingDisplay = "none"
    /\ resultCardDisplay = "none"
    /\ resultContent = << >>
    /\ files = 0
    /\ reqs = << >>

Init == PageLoaded(TRUE) /\ IndexLoaded(TRUE, TRUE, TRUE)

\* the page as markup that leaves #capture-photo enabled loads it
InitCaptureEnabled == PageLoaded(FALSE) /\ IndexLoaded(TRUE, TRUE, TRUE)

\* the index page with its drop zone: any of the three elements may be missing; the
\* camera form's anchor and result template play no part there
InitAnalyze ==
    /\ PageLoaded(TRUE)
    /\ hasAnchor = FALSE
    /\ \E l \in BOOLEAN, c \in BOOLEAN, r \in BOOLEAN : IndexLoaded(l, c, r)

\* a reset that forgets the handle without stopping its tracks
StopTracks_forgotten(s, l) == l

\* stream.getTracks().forEach(track => track.stop())
StopTracks(s, l) == l \ {s}

\* ---- mode toggle ----

\* switchToUploadMode
switchToUploadMode ==
    /\ pageOpen
    /\ uploadBtnActive' = TRUE
    /\ cameraBtnActive' = FALSE
    /\ uploadShown' = TRUE
    /\ cameraShown' = FALSE
    /\ IF stream # null
       THEN live' = StopTracks(stream, live) /\ stream' = null
       ELSE UNCHANGED <<live, stream>>
    /\ startDisabled' = FALSE
    /\ captureDisabled' = TRUE
    /\ startInUpload' = FALSE
    /\ UNCHANGED <<pageOpen, clicks, granted, pendingStart>>
    /\ UNCHANGED frameVars
    /\ UNCHANGED <<subs, alerts>>
    /\ UNCHANGED docVars
    /\ UNCHANGED analyzeVars

\* switchToCameraMode that does not hide the upload panel
switchToCameraMode_noHide ==
    /\ pageOpen
    /\ cameraBtnActive' = TRUE
    /\ uploadBtnActive' = FALSE
    /\ cameraShown' = TRUE
    /\ startInUpload' = FALSE
    /\ UNCHANGED <<pageOpen, clicks, uploadShown>>
    /\ UNCHANGED <<stream, live, granted, pendingStart, startDisabled, captureDisabled>>
    /\ UNCHANGED frameVars
    /\ UNCHANGED <<subs, alerts>>
    /\ UNCHANGED docVars
    /\ UNCHANGED analyzeVars

\* switchToCameraMode that starts the camera at once
switchToCameraMode_autoStart ==
    /\ pageOpen
    /\ cameraBtnActive' = TRUE
    /\ uploadBtnActive' = FALSE
    /\ cameraShown' = TRUE
    /\ uploadShown' = FALSE
    /\ startInUpload' = FALSE
    /\ pendingStart' = pendingStart + 1
    /\ UNCHANGED <<pageOpen, clicks>>
    /\ UNCHANGED <<stream, live, granted, startDisabled, captureDisabled>>
    /\ UNCHANGED frameVars
    /\ UNCHANGED <<subs, alerts>>
    /\ UNCHANGED docVars
    /\ UNCHANGED analyzeVars

\* switchToCameraMode
switchToCameraMode ==
    /\ pageOpen
    /\ cameraBtnActive' = TRUE
    /\ uploadBtnActive' = FALSE
    /\ cameraShown' = TRUE
    /\ uploadShown' = FALSE
    /\ startInUpload' = FALSE
    /\ UNCHANGED <<pageOpen, clicks>>
    /\ UNCHANGED <<stream, live, granted, pendingStart, startDisabled, captureDisabled>>
    /\ UNCHANGED frameVars
    /\ UNCHANGED <<subs, alerts>>
    /\ UNCHANGED docVars
    /\ UNCHANGED analyzeVars

\* ---- camera ----

\* click on #start-camera, up to the await of getUserMedia
StartClick ==
    /\ pageOpen
    /\ ~startDisabled
    /\ clicks < MaxClicks
    /\ clicks' = clicks + 1
    /\ pendingStart' = pendingStart + 1
    /\ startInUpload' = uploadShown
    /\ UNCHANGED <<stream, live, granted, startDisabled, captureDisabled>>
    /\ UNCHANGED pageOpen
    /\ UNCHANGED modeVars
    /\ UNCHANGED frameVars
    /\ UNCHANGED <<subs, alerts>>
    /\ UNCHANGED docVars
    /\ UNCHANGED analyzeVars

\* a try block that leaves the start button enabled
StartGranted_startEnabled ==
    /\ pageOpen
    /\ pendingStart > 0
    /\ pendingStart' = pendingStart - 1
    /\ granted' = granted + 1
    /\ live' = live \cup {granted + 1}
    /\ stream' = granted + 1
    /\ captureDisabled' = FALSE
    /\ UNCHANGED <<clicks, startInUpload, startDisabled>>
    /\ UNCHANGED pageOpen
    /\ UNCHANGED modeVars
    /\ UNCHANGED frameVars
    /\ UNCHANGED <<subs, alerts>>
    /\ UNCHANGED docVars
    /\ UNCHANGED analyzeVars

\* getUserMedia resolves: the rest of the try block
StartGranted ==
    /\ pageOpen
    /\ pendingStart > 0
    /\ pendingStart' = pendingStart - 1
    /\ granted' = granted + 1
    /\ live' = live \cup {granted + 1}
    /\ stream' = granted + 1
    /\ startDisabled' = TRUE
    /\ captureDisabled' = FALSE
    /\ UNCHANGED <<clicks, startInUpload>>
    /\ UNCHANGED pageOpen
    /\ UNCHANGED modeVars
    /\ UNCHANGED frameVars
    /\ UNCHANGED <<subs, alerts>>
    /\ UNCHANGED docVars
    /\ UNCHANGED analyzeVars

\* a handler that disables the start button before the await and never re-enables it
StartDenied_disabled ==
    /\ pageOpen
    /\ pendingStart > 0
    /\ pendingStart' = pendingStart - 1
    /\ alerts' = [alerts EXCEPT !.camera = @ + 1]
    /\ startDisabled' = TRUE
    /\ UNCHANGED <<stream, live, granted, clicks, captureDisabled, startInUpload>>
    /\ UNCHANGED pageOpen
    /\ UNCHANGED modeVars
    /\ UNCHANGED frameVars
    /\ UNCHANGED subs
    /\ UNCHANGED docVars
    /\ UNCHANGED analyzeVars

\* getUserMedia rejects: the catch block
StartDenied ==
    /\ pageOpen
    /\ pendingStart > 0
    /\ pendingStart' = pendingStart - 1
    /\ alerts' = [alerts EXCEPT !.camera = @ + 1]
    /\ UNCHANGED <<stream, live, granted, clicks, startDisabled,
                   captureDisabled, startInUpload>>
    /\ UNCHANGED pageOpen
    /\ UNCHANGED modeVars
    /\ UNCHANGED frameVars
    /\ UNCHANGED subs
    /\ UNCHANGED docVars
    /\ UNCHANGED analyzeVars

\* the capture handler without its stream check
CaptureClick_unguarded ==
    /\ pageOpen
    /\ ~captureDisabled
    /\ clicks < MaxClicks
    /\ clicks' = clicks + 1
    /\ pendingBlob' = pendingBlob + 1
    /\ UNCHANGED <<frames, cameraImageInput, previewShown>>
    /\ UNCHANGED pageOpen
    /\ UNCHANGED modeVars
    /\ UNCHANGED cameraVars
    /\ UNCHANGED <<subs, alerts>>
    /\ UNCHANGED docVars
    /\ UNCHANGED analyzeVars

\* click on #capture-photo
CaptureClick ==
    /\ pageOpen
    /\ ~captureDisabled
    /\ clicks < MaxClicks
    /\ clicks' = clicks + 1
    /\ IF stream = null
       THEN UNCHANGED pendingBlob
       ELSE pendingBlob' = pendingBlob + 1
    /\ UNCHANGED <<frames, cameraImageInput, previewShown>>
    /\ UNCHANGED pageOpen
    /\ UNCHANGED modeVars
    /\ UNCHANGED cameraVars
    /\ UNCHANGED <<subs, alerts>>
    /\ UNCHANGED docVars
    /\ UNCHANGED analyzeVars

\* the canvas.toBlob callback
BlobReady ==
    /\ pageOpen
    /\ pendingBlob > 0
    /\ pendingBlob' = pendingBlob - 1
    /\ frames' = frames + 1
    /\ cameraImageInput' = frames + 1
    /\ previewShown' = TRUE
    /\ UNCHANGED clicks
    /\ UNCHANGED pageOpen
    /\ UNCHANGED modeVars
    /\ UNCHANGED cameraVars
    /\ UNCHANGED <<subs, alerts>>
    /\ UNCHANGED docVars
    /\ UNCHANGED analyzeVars

\* beforeunload
BeforeUnload ==
    /\ pageOpen
    /\ pageOpen' = FALSE
    /\ IF stream # null
       THEN live' = StopTracks(stream, live)
       ELSE UNCHANGED live
    /\ UNCHANGED <<stream, granted, clicks, pendingStart, startDisabled,
                   captureDisabled, startInUpload>>
    /\ UNCHANGED modeVars
    /\ UNCHANGED frameVars
    /\ UNCHANGED <<subs, alerts>>
    /\ UNCHANGED docVars
    /\ UNCHANGED analyzeVars

\* ---- camera form submission ----

\* the submit handler without its frame check
Submit_unchecked ==
    /\ pageOpen
    /\ clicks < MaxClicks
    /\ clicks' = clicks + 1
    /\ subs' = Append(subs, [stage |-> "blob", frame |-> cameraImageInput,
                             session |-> granted, body |-> NoBody, posts |-> 0])
    /\ UNCHANGED <<pageOpen, alerts>>
    /\ UNCHANGED modeVars
    /\ UNCHANGED cameraVars
    /\ UNCHANGED frameVars
    /\ UNCHANGED docVars
    /\ UNCHANGED analyzeVars

\* submit event of #camera-form: the frame check, up to fetch(cameraImageInput.value)
\* (session records how many streams had been acquired when the submission was issued)
Submit ==
    /\ pageOpen
    /\ clicks < MaxClicks
    /\ clicks' = clicks + 1
    /\ IF cameraImageInput = null
       THEN /\ alerts' = [alerts EXCEPT !.noCapture = @ + 1]
            /\ UNCHANGED subs
       ELSE /\ subs' = Append(subs, [stage |-> "blob", frame |-> cameraImageInput,
                                     session |-> granted, body |-> NoBody,
                                     posts |-> 0])
            /\ UNCHANGED alerts
    /\ UNCHANGED pageOpen
    /\ UNCHANGED modeVars
    /\ UNCHANGED cameraVars
    /\ UNCHANGED frameVars
    /\ UNCHANGED docVars
    /\ UNCHANGED analyzeVars

\* the blob URL has been read back: build the FormData and issue the POST
PostIssued(s) ==
    /\ pageOpen
    /\ subs[s].stage = "blob"
    /\ subs' = [subs EXCEPT ![s].stage = "post", ![s].posts = @ + 1]
    /\ UNCHANGED <<pageOpen, clicks, alerts>>
    /\ UNCHANGED modeVars
    /\ UNCHANGED cameraVars
    /\ UNCHANGED frameVars
    /\ UNCHANGED docVars
    /\ UNCHANGED analyzeVars

\* the bodies a 2xx response may have: the rendered result, or a page without one
Bodies == {template, NoResult}

\* the POST resolves with response.ok: response.text() is awaited
ResponseOk(s, b) ==
    /\ pageOpen
    /\ subs[s].stage = "post"
    /\ subs' = [subs EXCEPT ![s].stage = "text", ![s].body = b]
    /\ UNCHANGED <<pageOpen, clicks, alerts>>
    /\ UNCHANGED modeVars
    /\ UNCHANGED cameraVars
    /\ UNCHANGED frameVars
    /\ UNCHANGED docVars
    /\ UNCHANGED analyzeVars

\* a catch that sends the request again
CatchError_retry(s) ==
    /\ subs' = [subs EXCEPT ![s].stage = "post", ![s].posts = @ + 1]
    /\ alerts' = [alerts EXCEPT !.network = @ + 1]
    /\ UNCHANGED <<pageOpen, clicks>>
    /\ UNCHANGED modeVars
    /\ UNCHANGED cameraVars
    /\ UNCHANGED frameVars
    /\ UNCHANGED docVars
    /\ UNCHANGED analyzeVars

\* .catch(error => ...): console.error and alert, nothing else
CatchError(s) ==
    /\ subs' = [subs EXCEPT ![s].stage = "failed"]
    /\ alerts' = [alerts EXCEPT !.network = @ + 1]
    /\ UNCHANGED <<pageOpen, clicks>>
    /\ UNCHANGED modeVars
    /\ UNCHANGED cameraVars
    /\ UNCHANGED frameVars
    /\ UNCHANGED docVars
    /\ UNCHANGED analyzeVars

\* the POST resolves with a non-2xx status: throw new Error(...), caught
ResponseNotOk(s) ==
    /\ pageOpen
    /\ subs[s].stage = "post"
    /\ CatchError(s)

\* the POST rejects (transport failure), caught
TransportFailure(s) ==
    /\ pageOpen
    /\ subs[s].stage = "post"
    /\ CatchError(s)

\* response.text() rejects (the connection drops in the body), caught
BodyFailure(s) ==
    /\ pageOpen
    /\ subs[s].stage = "text"
    /\ CatchError(s)

\* ---- splicing the fragment and running its scripts ----

\* the script elements of the .analysis-result node that came with submission s
ScriptsOf(s) == subs[s].body

\* ensureLeafletCSS without its check for an existing link
ensureLeafletCSS_always(links) == links + 1

\* ensureLeafletCSS
ensureLeafletCSS(links) == IF links > 0 THEN links ELSE links + 1

RECURSIVE RunLoop(_)

\* loadScript without its await: the element is appended and the loop goes on
loadScript_notAwaited(w) ==
    LET i == w.p.idx
        u == w.p.scripts[i]
    IN  RunLoop([w EXCEPT !.p.log = Append(@, [ev |-> "load", i |-> i]),
                          !.p.idx = @ + 1,
                          !.fetches[u] = @ + 1,
                          !.body = @ + 1])

\* loadScript(src), as seen by the loop: a script element is appended and the
\* loop is suspended in the await
loadScript(w) ==
    LET i == w.p.idx
        u == w.p.scripts[i]
    IN  [w EXCEPT !.p.waiting = TRUE,
                  !.p.log = Append(@, [ev |-> "load", i |-> i]),
                  !.fetches[u] = @ + 1,
                  !.body = @ + 1]

\* the for loop of executeScriptsFrom, from script w.p.idx to its next await
RunLoop(w) ==
    IF w.p.idx > Len(w.p.scripts) THEN w
    ELSE IF w.p.scripts[w.p.idx] # Inline
         THEN loadScript(w)
         ELSE RunLoop([w EXCEPT !.p.log = Append(@, [ev |-> "inline", i |-> w.p.idx]),
                                !.p.idx = @ + 1,
                                !.body = @ + 1])

\* the loop without its try/catch: a rejected load ends the async function
AfterLoad_uncaught(w, ok) ==
    IF ok
    THEN RunLoop([w EXCEPT !.p.waiting = FALSE,
                           !.p.log = Append(@, [ev |-> "loaded", i |-> w.p.idx]),
                           !.p.idx = @ + 1])
    ELSE [w EXCEPT !.p.waiting = FALSE,
                   !.p.log = Append(@, [ev |-> "failed", i |-> w.p.idx]),
                   !.p.idx = Len(w.p.scripts) + 1]

\* the step of the loop after an await of loadScript settled, resolved or rejected
AfterLoad(w, ok) ==
    RunLoop([w EXCEPT !.p.waiting = FALSE,
                      !.p.log = Append(@, [ev |-> IF ok THEN "loaded" ELSE "failed",
                                           i |-> w.p.idx]),
                      !.p.idx = @ + 1])

\* executeScriptsFrom(container), up to its first await
executeScriptsFrom(container, from) ==
    RunLoop([p |-> [container |-> container, from |-> from,
                    scripts |-> ScriptsOf(container),
                    idx |-> 1, waiting |-> FALSE, log |-> << >>],
             fetches |-> fetches, body |-> bodyScripts])

\* a handler that drops the response when the camera has been left meanwhile
Spliced_dropStale(s) ==
    LET newResult == subs[s].body # NoResult
    IN  IF uploadShown \/ stream = null THEN docResult
        ELSE IF docResult # null /\ newResult THEN s
        ELSE IF newResult /\ hasAnchor THEN s
        ELSE docResult

\* the node the handler leaves as the page's .analysis-result
Spliced(s) ==
    LET newResult == subs[s].body # NoResult
    IN  IF docResult # null /\ newResult THEN s
        ELSE IF newResult /\ hasAnchor THEN s
        ELSE docResult

\* response.text() resolves: the html handler, up to the first await of
\* executeScriptsFrom, and the reset of the camera that follows the call
HandleHtml(s) ==
    /\ pageOpen
    /\ subs[s].stage = "text"
    /\ subs' = [subs EXCEPT ![s].stage = "done"]
    /\ docResult' = Spliced(s)
    /\ LET injected == Spliced(s)
       IN  IF injected = null
           THEN UNCHANGED <<leafletLinks, bodyScripts, fetches, patches>>
           ELSE LET w == executeScriptsFrom(injected, s)
                IN  /\ leafletLinks' = ensureLeafletCSS(leafletLinks)
                    /\ bodyScripts' = w.body
                    /\ fetches' = w.fetches
                    /\ patches' = Append(patches, w.p)
    /\ previewShown' = FALSE
    /\ cameraImageInput' = null
    /\ IF stream # null
       THEN live' = StopTracks(stream, live) /\ stream' = null
       ELSE UNCHANGED <<live, stream>>
    /\ startDisabled' = FALSE
    /\ captureDisabled' = TRUE
    /\ UNCHANGED <<granted, clicks, pendingStart, startInUpload>>
    /\ UNCHANGED <<pendingBlob, frames>>
    /\ UNCHANGED <<pageOpen, alerts, hasAnchor, template>>
    /\ UNCHANGED modeVars
    /\ UNCHANGED analyzeVars

\* the script element of the load patch k awaits fires onload or onerror
LoadSettled(k, ok) ==
    /\ pageOpen
    /\ patches[k].waiting
    /\ LET w == AfterLoad([p |-> patches[k], fetches |-> fetches, body |-> bodyScripts], ok)
       IN  /\ patches' = [patches EXCEPT ![k] = w.p]
           /\ fetches' = w.fetches
           /\ bodyScripts' = w.body
    /\ UNCHANGED <<hasAnchor, template, docResult, leafletLinks>>
    /\ UNCHANGED <<pageOpen, clicks, subs, alerts>>
    /\ UNCHANGED modeVars
    /\ UNCHANGED cameraVars
    /\ UNCHANGED frameVars
    /\ UNCHANGED analyzeVars

ScriptLoaded(k) == LoadSettled(k, TRUE)
ScriptFailed(k) == LoadSettled(k, FALSE)

Next ==
    \/ switchToUploadMode
    \/ switchToCameraMode
    \/ StartClick
    \/ StartGranted
    \/ StartDenied
    \/ CaptureClick
    \/ BlobReady
    \/ BeforeUnload
    \/ Submit
    \/ \E s \in DOMAIN subs : PostIssued(s)
    \/ \E s \in DOMAIN subs : \E b \in Bodies : ResponseOk(s, b)
    \/ \E s \in DOMAIN subs : ResponseNotOk(s)
    \/ \E s \in DOMAIN subs : TransportFailure(s)
    \/ \E s \in DOMAIN subs : BodyFailure(s)
    \/ \E s \in DOMAIN subs : HandleHtml(s)
    \/ \E k \in DOMAIN patches : ScriptLoaded(k)
    \/ \E k \in DOMAIN patches : ScriptFailed(k)

Spec == Init /\ [][Next]_vars

\* the same page, loaded from markup that leaves #capture-photo enabled
SpecCaptureEnabled == InitCaptureEnabled /\ [][Next]_vars

\* ---- the /analyze/ upload of the index page ----

cameraPageVars == <<modeVars, cameraVars, frameVars, docVars, pipelineVars>>

\* the requests whose promise chain has not run its last handler
Outstanding == {i \in DOMAIN reqs : reqs[i].stage \in {"fetch", "json"}}

\* the html the data handler builds from the parsed body
resultHtml(data) ==
    LET edibilityLabel == IF data.is_edible THEN "EDIBLE" ELSE "POISONOUS"
    IN  IF data.is_edible /\ data.species # ""
        THEN <<edibilityLabel, "species", "shelf-life", "preservation">>
        ELSE IF ~data.is_edible
             THEN <<edibilityLabel, "skipped">>
             ELSE <<edibilityLabel>>

\* the parsed bodies whose properties can be read: is_edible truthy or not,
\* species present or not
Datas == [is_edible : BOOLEAN, species : {"", "oyster"}]

\* handleFile(file), up to the fetch('/analyze/') call
handleFile(file) ==
    /\ reqs' = Append(reqs, [stage |-> "fetch", file |-> file,
                             over |-> Outstanding # {}])
    /\ loadingDisplay' = IF hasLoading THEN "block" ELSE loadingDisplay
    /\ resultCardDisplay' = IF hasResultCard THEN "none" ELSE resultCardDisplay
    /\ UNCHANGED resultContent

\* drop event on the drop zone: only an image file is handled
Drop(file) ==
    /\ pageOpen
    /\ files < MaxFiles
    /\ files' = files + 1
    /\ IF file # NoFile /\ file[1] = "image"
       THEN handleFile(file)
       ELSE UNCHANGED <<reqs, loadingDisplay, resultCardDisplay, resultContent>>
    /\ UNCHANGED <<pageOpen, hasLoading, hasResultCard, hasResultContent>>
    /\ UNCHANGED cameraPageVars

\* change event of #fileInput: any file is handled
FileChanged(file) ==
    /\ pageOpen
    /\ files < MaxFiles
    /\ files' = files + 1
    /\ IF file # NoFile
       THEN handleFile(file)
       ELSE UNCHANGED <<reqs, loadingDisplay, resultCardDisplay, resultContent>>
    /\ UNCHANGED <<pageOpen, hasLoading, hasResultCard, hasResultContent>>
    /\ UNCHANGED cameraPageVars

\* fetch resolves with a response of any status: response.json() is started
AnalyzeResponse(i) ==
    /\ pageOpen
    /\ reqs[i].stage = "fetch"
    /\ reqs' = [reqs EXCEPT ![i].stage = "json"]
    /\ UNCHANGED <<pageOpen, hasLoading, hasResultCard, hasResultContent,
                   loadingDisplay, resultCardDisplay, resultContent, files>>
    /\ UNCHANGED cameraPageVars

\* a .catch that shows the error but leaves the loading indicator as it is
catchAnalyze_keepsLoading(i, message) ==
    /\ reqs' = [reqs EXCEPT ![i].stage = "failed"]
    /\ UNCHANGED loadingDisplay
    /\ resultCardDisplay' = IF hasResultCard THEN "block" ELSE resultCardDisplay
    /\ resultContent' = IF hasResultContent THEN <<"error", message>> ELSE resultContent

\* the .catch of handleFile's chain
catchAnalyze(i, message) ==
    /\ reqs' = [reqs EXCEPT ![i].stage = "failed"]
    /\ loadingDisplay' = IF hasLoading THEN "none" ELSE loadingDisplay
    /\ resultCardDisplay' = IF hasResultCard THEN "block" ELSE resultCardDisplay
    /\ resultContent' = IF hasResultContent THEN <<"error", message>> ELSE resultContent

\* fetch rejects (transport failure): both .then are skipped
AnalyzeTransportFailure(i) ==
    /\ pageOpen
    /\ reqs[i].stage = "fetch"
    /\ catchAnalyze(i, "network")
    /\ UNCHANGED <<pageOpen, hasLoading, hasResultCard, hasResultContent, files>>
    /\ UNCHANGED cameraPageVars

\* response.json() rejects (the body is not JSON): the data handler is skipped
AnalyzeMalformed(i) ==
    /\ pageOpen
    /\ reqs[i].stage = "json"
    /\ catchAnalyze(i, "syntax")
    /\ UNCHANGED <<pageOpen, hasLoading, hasResultCard, hasResultContent, files>>
    /\ UNCHANGED cameraPageVars

\* response.json() resolves with null: the data handler sets the two displays and
\* throws on data.is_edible; the .catch runs in the same task and sets them again
AnalyzeNullData(i) ==
    /\ pageOpen
    /\ reqs[i].stage = "json"
    /\ catchAnalyze(i, "type")
    /\ UNCHANGED <<pageOpen, hasLoading, hasResultCard, hasResultContent, files>>
    /\ UNCHANGED cameraPageVars

\* response.json() resolves with data: the data handler
AnalyzeData(i, data) ==
    /\ pageOpen
    /\ reqs[i].stage = "json"
    /\ reqs' = [reqs EXCEPT ![i].stage = "done"]
    /\ loadingDisplay' = IF hasLoading THEN "none" ELSE loadingDisplay
    /\ resultCardDisplay' = IF hasResultCard THEN "block" ELSE resultCardDisplay
    /\ resultContent' = IF hasResultContent THEN resultHtml(data) ELSE resultContent
    /\ UNCHANGED <<pageOpen, hasLoading, hasResultCard, hasResultContent, files>>
    /\ UNCHANGED cameraPageVars

NextAnalyze ==
    \/ \E file \in Files \cup {NoFile} : Drop(file)
    \/ \E file \in Files \cup {NoFile} : FileChanged(file)
    \/ \E i \in DOMAIN reqs : AnalyzeResponse(i)
    \/ \E i \in DOMAIN reqs : AnalyzeTransportFailure(i)
    \/ \E i \in DOMAIN reqs : AnalyzeMalformed(i)
    \/ \E i \in DOMAIN reqs : AnalyzeNullData(i)
    \/ \E i \in DOMAIN reqs : \E data \in Datas : AnalyzeData(i, data)
    \/ BeforeUnload

SpecAnalyze == InitAnalyze /\ [][NextAnalyze]_vars

\* ---- the claims ----

Posting   == {s \in DOMAIN subs : subs[s].stage = "post"}
Done      == {s \in DOMAIN subs : subs[s].stage = "done"}

\* the step in which the .catch of submission s runs
Caught(s) == subs[s].stage \in {"post", "text"} /\ subs'[s].stage = "failed"

\* the step in which the html handler of submission s runs
Handled(s) == subs[s].stage = "text" /\ subs'[s].stage = "done"

\* the scripts of patch k the loop has got to: appended inline, or load started
Activated(k) ==
    {patches[k].log[j].i : j \in {n \in DOMAIN patches[k].log :
                                      patches[k].log[n].ev \in {"load", "inline"}}}

\* the external script i of patch k has settled before entry j of the log
SettledBefore(k, i, j) ==
    \E n \in 1..(j - 1) : /\ patches[k].log[n].i = i
                          /\ patches[k].log[n].ev \in {"loaded", "failed"}

\* C1: at most one submission POST of the camera form is outstanding at any time
\* (a submit during an unresolved submission issues no request).
C1_SingleFlight == Cardinality(Posting) <= 1

\* C2: every external script URL is loaded at most once in the page's lifetime,
\* however many patches refer to it.
C2_LoadedAtMostOnce == \A u \in URLs : fetches[u] <= 1

\* C3: no acquired stream is live without being the handle the session holds
\* (at most one hardware stream, also when start is clicked during a pending start).
C3_OneStream == live \subseteq {stream}

\* C4: when the POST fails (non-2xx or transport), the user is notified, the result
\* region is unchanged and the camera is reset: stream stopped, frame discarded.
C4_FailureResets ==
    [][\A s \in DOMAIN subs :
         Caught(s) => /\ alerts'.network = alerts.network + 1
                      /\ docResult' = docResult
                      /\ stream' = null
                      /\ stream \notin live'
                      /\ cameraImageInput' = null]_vars

\* C5: handling a 2xx body without an .analysis-result leaves the document as it
\* was: no node replaced or inserted, no script or stylesheet element appended.
C5_NoResultNoChange ==
    [][\A s \in DOMAIN subs :
         (Handled(s) /\ subs[s].body = NoResult)
             => /\ docResult' = docResult
                /\ bodyScripts' = bodyScripts
                /\ leafletLinks' = leafletLinks
                /\ fetches' = fetches]_vars

\* C6: within one patch the scripts are activated in document order, and a script
\* (inline, or the load of an external one) is activated only after every external
\* script before it in the fragment has settled.
C6_DocumentOrder ==
    \A k \in DOMAIN patches :
        LET log == patches[k].log
        IN  /\ \A j \in DOMAIN log : \A n \in 1..(j - 1) : log[n].i <= log[j].i
            /\ \A j \in DOMAIN log :
                   log[j].ev \in {"load", "inline"}
                       => \A i \in 1..(log[j].i - 1) :
                              patches[k].scripts[i] # Inline => SettledBefore(k, i, j)

\* a patch that ran an inline script after an external one
C6_Witness ==
    \E k \in DOMAIN patches :
        \E j \in DOMAIN patches[k].log :
            /\ patches[k].log[j].ev = "inline"
            /\ \E i \in 1..(patches[k].log[j].i - 1) : patches[k].scripts[i] # Inline

\* C7: a submit with no stored frame alerts the user, issues no request and leaves
\* the camera, the frame and the document as they were.
C7_NoCapture ==
    [][(Submit /\ cameraImageInput = null)
           => /\ alerts'.noCapture = alerts.noCapture + 1
              /\ subs' = subs
              /\ UNCHANGED cameraVars
              /\ UNCHANGED frameVars
              /\ UNCHANGED docVars]_vars

\* a submit was refused for want of a frame
C7_Witness == alerts.noCapture > 0 /\ subs = << >>

\* C8: when a 2xx response has been handled, the result node of the body (if the
\* page has a place for it) is the page's result and its scripts are being run,
\* the held stream is stopped and forgotten, the frame is discarded and the start
\* control is enabled.
C8_SuccessResets ==
    [][\A s \in DOMAIN subs :
         Handled(s)
             => /\ (subs[s].body # NoResult /\ (docResult # null \/ hasAnchor))
                       => /\ docResult' = s
                          /\ Len(patches') = Len(patches) + 1
                          /\ patches'[Len(patches')].container = s
                /\ stream' = null
                /\ stream \notin live'
                /\ cameraImageInput' = null
                /\ ~previewShown'
                /\ ~startDisabled']_vars

\* a 2xx response was handled while a stream was held and its node is in the page
C8_Witness ==
    \E s \in Done : /\ docResult = s
                    /\ granted > 0 /\ stream = null /\ live = {}
                    /\ cameraImageInput = null /\ ~startDisabled

\* C9: while the upload panel is shown and start has not been clicked since it was
\* shown, no hardware stream is live.
C9_NoStreamInUpload == (uploadShown /\ ~startInUpload) => live = {}

\* C10: a failed load of an external script does not end the activation: the next
\* script is activated in the same step, a patch that has come to rest has
\* activated every script, and the failure raises no alert.
C10_FailureTolerated ==
    /\ [](\A k \in DOMAIN patches :
            /\ \A j \in DOMAIN patches[k].log :
                   (patches[k].log[j].ev = "failed"
                        /\ patches[k].log[j].i < Len(patches[k].scripts))
                       => patches[k].log[j].i + 1 \in Activated(k)
            /\ ~patches[k].waiting => Activated(k) = DOMAIN patches[k].scripts)
    /\ [][\A k \in DOMAIN patches :
            (Len(patches'[k].log) > Len(patches[k].log)
                 /\ patches'[k].log[Len(patches[k].log) + 1].ev = "failed")
                => alerts' = alerts]_vars

\* a load failed and the patch went on to a later script
C10_Witness ==
    \E k \in DOMAIN patches :
        \E j \in DOMAIN patches[k].log :
            /\ patches[k].log[j].ev = "failed"
            /\ patches[k].log[j].i < Len(patches[k].scripts)
            /\ ~patches[k].waiting

\* a step of one of the three stop paths: mode switch to Upload, the reset after
\* a 2xx response, page teardown
StopStep ==
    \/ switchToUploadMode
    \/ \E s \in DOMAIN subs : HandleHtml(s)
    \/ BeforeUnload

C12_CaptureNeedsStream ==
    [][/\ (CaptureClick /\ stream = null)
              => /\ UNCHANGED frameVars
                 /\ UNCHANGED cameraVars
                 /\ UNCHANGED modeVars
                 /\ UNCHANGED <<subs, alerts>>
                 /\ UNCHANGED docVars
       /\ pendingBlob' > pendingBlob => stream # null
       /\ (frames' # frames \/ cameraImageInput' \notin {cameraImageInput, null})
              => (pendingBlob > 0 /\ pendingBlob' = pendingBlob - 1)]_vars

\* #capture-photo was clicked with no stream ever acquired, and no frame exists
C12_Witness ==
    /\ clicks > 0 /\ granted = 0 /\ pendingStart = 0 /\ alerts.camera = 0
    /\ alerts.noCapture = 0 /\ subs = << >>
    /\ frames = 0 /\ pendingBlob = 0 /\ cameraImageInput = null

\* the submissions whose POST has been issued
Posted == {s \in DOMAIN subs : subs[s].posts > 0}

\* C13: no captured frame is carried by more than one submission POST.
C13_FrameSentOnce ==
    \A s \in Posted : \A t \in Posted : subs[s].frame = subs[t].frame => s = t

\* C14: a submit that passes the frame check issues exactly one POST: one when its
\* blob has been read back, never another, in particular none after a failure;
\* and a submission only comes from a submit event with a frame stored.
C14_OnePostPerSubmit ==
    /\ [](\A s \in DOMAIN subs :
            subs[s].posts = (IF subs[s].stage = "blob" THEN 0 ELSE 1))
    /\ [][/\ Len(subs') > Len(subs)
                => (clicks' = clicks + 1 /\ cameraImageInput # null
                        /\ Len(subs') = Len(subs) + 1)
          /\ \A s \in DOMAIN subs :
                subs'[s].posts # subs[s].posts => subs[s].stage = "blob"]_vars

\* a POST failed and was not sent again
C14_Witness ==
    \E s \in DOMAIN subs : subs[s].stage = "failed" /\ subs[s].posts = 1

UploadMode == uploadBtnActive /\ ~cameraBtnActive /\ uploadShown /\ ~cameraShown
CameraMode == cameraBtnActive /\ ~uploadBtnActive /\ cameraShown /\ ~uploadShown

\* C15: exactly one mode button is active and exactly one panel is shown, the
\* two agree, and they are those of the last switch performed.
C15_OneMode ==
    [][/\ switchToUploadMode => UploadMode'
       /\ switchToCameraMode => CameraMode'
       /\ modeVars' # modeVars => (switchToUploadMode \/ switchToCameraMode)]_vars

\* camera mode is the active mode, after a switch to it
C15_Witness == CameraMode

\* C16: switchToCameraMode requests no hardware and leaves the handle, the
\* streams, the frame and the start and capture controls as they were.
C16_CameraSwitchFrame ==
    [][switchToCameraMode
           => /\ UNCHANGED <<stream, live, granted, pendingStart>>
              /\ UNCHANGED <<startDisabled, captureDisabled>>
              /\ UNCHANGED frameVars
              /\ UNCHANGED <<subs, alerts>>]_vars

\* camera mode was entered with a stream held and a frame stored, both kept
C16_Witness == CameraMode /\ stream # null /\ cameraImageInput # null /\ startDisabled

\* C17: when getUserMedia rejects, the user is alerted, the handle and the streams
\* are as they were, the start control is as it was (enabled stays enabled), and
\* both mode switches can still be performed.
C17_DeniedStart ==
    /\ [](pageOpen => (ENABLED switchToUploadMode /\ ENABLED switchToCameraMode))
    /\ [][StartDenied => /\ alerts'.camera = alerts.camera + 1
                         /\ UNCHANGED <<stream, live, granted>>
                         /\ UNCHANGED <<startDisabled, captureDisabled>>
                         /\ pageOpen']_vars

\* an acquisition was refused: no stream, start still enabled
C17_Witness == alerts.camera > 0 /\ stream = null /\ live = {} /\ ~startDisabled /\ pageOpen

\* C18: the patcher injects the stylesheet link only when the page has none, so
\* the page never has more than one.
C18_OneStylesheet ==
    /\ [](leafletLinks <= 1)
    /\ [][leafletLinks' # leafletLinks
              => (leafletLinks = 0 /\ leafletLinks' = 1)]_vars

\* two patches have run and there is one link
C18_Witness == Len(patches) >= 2 /\ leafletLinks = 1

\* C19: a 2xx response with a result node is spliced into the page whatever the
\* mode and the camera state are when it is handled, also when the user switched
\* to Upload or the camera was reset while the submission was in flight.
C19_StaleApplied ==
    [][\A s \in DOMAIN subs :
         (Handled(s) /\ subs[s].body # NoResult /\ (docResult # null \/ hasAnchor))
             => docResult' = s]_vars

\* Two submissions of the same frame have both been handled and one of them is
\* the page's result.  A frame is discarded by the first reset and never stored
\* again, so both were submitted before either was handled: the one handled
\* last was in flight when the other's handler reset the camera.
C19_Witness ==
    \E s \in Done : \E t \in Done :
        /\ s # t
        /\ subs[s].frame = subs[t].frame
        /\ subs[s].body # NoResult /\ subs[t].body # NoResult
        /\ docResult \in {s, t}
        /\ UploadMode /\ stream = null

\* C20: the start control is disabled exactly when a stream handle is held, and
\* the capture control is enabled exactly when a stream handle is held.
C20_ControlsFollowHandle ==
    /\ startDisabled <=> stream # null
    /\ ~captureDisabled <=> stream # null

\* a second stream is held, after the first was given up, with the controls set
C20_Witness == granted >= 2 /\ stream # null /\ startDisabled /\ ~captureDisabled

\* C21: the reset that follows a handled response touches only the session of
\* its own submission: a stream acquired after the submission was issued is
\* still held and live after the response is handled, and a frame stored after
\* the submission was issued is still in the camera_image input
C21_LaterStreamKept ==
    \A s \in DOMAIN subs :
        (Handled(s) /\ stream # null /\ stream > subs[s].session)
            => (stream' = stream /\ stream \in live')

C21_LaterFrameKept ==
    \A s \in DOMAIN subs :
        (Handled(s) /\ cameraImageInput # null /\ cameraImageInput > subs[s].frame)
            => cameraImageInput' = cameraImageInput

C21_ResetOwnSession == [][C21_LaterStreamKept /\ C21_LaterFrameKept]_vars

\* C22: on the /analyze/ upload path, whenever every request handleFile has issued
\* has settled (data shown, malformed body or transport failure), the loading
\* indicator is hidden and the result card is shown, however the calls overlapped;
\* and the loading indicator is never visible while no request is outstanding
C22_SettledShowsResult ==
    /\ (reqs # << >> /\ Outstanding = {})
          => /\ hasLoading => loadingDisplay = "none"
             /\ hasResultCard => resultCardDisplay = "block"
    /\ (hasLoading /\ loadingDisplay # "none") => Outstanding # {}

\* two overlapping calls and a third, all settled, one by data and one by the .catch
C22_Witness ==
    /\ hasLoading /\ hasResultCard
    /\ Len(reqs) >= 2
    /\ Outstanding = {}
    /\ \E i \in DOMAIN reqs : reqs[i].over
    /\ \E i \in DOMAIN reqs : reqs[i].stage = "done"
    /\ \E i \in DOMAIN reqs : reqs[i].stage = "failed"
    /\ loadingDisplay = "none"
    /\ resultCardDisplay = "block"

====
